---- MODULE Spec2Model ----
(***************************************************************************)
(* Handle-lifetime core of egit.c: the object store (a hash table of       *)
(* reference-counted wrappers keyed by libgit2 pointer), egit_wrap (the    *)
(* ingress path), egit_decref_wrapper (the finalizer the host runs on a    *)
(* user pointer), and the type / error helpers the bindings call.          *)
(***************************************************************************)
EXTENDS Integers, Sequences, FiniteSets, TLC

(* ------------------------------------------------------------------ *)
(* Bounds                                                             *)
(* ------------------------------------------------------------------ *)

\* Number of egit_wrap calls explored in the lifetime specifications.
MaxWraps == 4

\* Number of egit_wrap calls explored in the specification of the helpers.
MaxQueryWraps == 2

\* Number of egit_wrap calls explored when any caller may pass EGIT_UNKNOWN.
MaxHintWraps == 3

(* ------------------------------------------------------------------ *)
(* The libgit2 side: pointers, their owners, their dynamic types      *)
(* ------------------------------------------------------------------ *)

Repos == {"R1", "R2"}
Refs  == {"F1"}
Objs  == {"O1"}
Ptrs  == Repos \cup Refs \cup Objs

\* git_reference_owner(p): the repository a reference pointer belongs to.
git_reference_owner(p) == "R1"

\* git_object_owner(p): the repository an object pointer belongs to.
git_object_owner(p) == "R1"

\* The values git_object_type can return for an object the library handed
\* out; GIT_OBJ_OFS_DELTA stands for every value other than the four the
\* switch of egit_wrap names.
GitOTypes ==
    {"GIT_OBJ_COMMIT", "GIT_OBJ_TREE", "GIT_OBJ_BLOB", "GIT_OBJ_TAG",
     "GIT_OBJ_OFS_DELTA"}

\* enum egit_type
EgitTypes ==
    {"EGIT_UNKNOWN", "EGIT_REPOSITORY", "EGIT_REFERENCE", "EGIT_COMMIT",
     "EGIT_TREE", "EGIT_BLOB", "EGIT_TAG", "EGIT_OBJECT"}

\* The case labels shared by egit_wrap, egit_decref_wrapper and
\* egit_assert_object for "this is a git_object".
ObjectTypes ==
    {"EGIT_COMMIT", "EGIT_TREE", "EGIT_BLOB", "EGIT_TAG", "EGIT_OBJECT"}

\* The NULL wrapper pointer (HASH_FIND_PTR found nothing).
NULL == 0

(* ------------------------------------------------------------------ *)
(* State                                                              *)
(* ------------------------------------------------------------------ *)

VARIABLES
    heap,          \* malloc'ed egit_object structs: wrapper id -> [type, ptr, refcount]
    object_store,  \* the hash table: the set of wrapper ids linked into it
    nextW,         \* identity of the next struct malloc returns
    handles,       \* user pointers made so far: <<[w, ptr, live, hint]>>, hint being
                   \* the type egit_wrap was called with
    vcl,           \* libgit2's view of each pointer: "none" | "live" | "freed"
    nfree,         \* git_*_free calls on each pointer since it was handed out
    otype,         \* git_object_type of each object pointer
    log,           \* events of the last operation, in program order
    crashed,       \* a NULL wrapper was dereferenced
    ret,           \* what the last operation returned
    signal,        \* the non-local exit the last operation raised in the host
    defuns         \* the host's function cells: {[name, fn]} set by em_defun

vars ==
    <<heap, object_store, nextW, handles, vcl, nfree, otype, log, crashed,
      ret, signal, defuns>>

NoSignal == [kind |-> "none"]

\* The part of the state the C functions of the store read and write,
\* threaded through the operators below.
Mem ==
    [heap |-> heap, store |-> object_store, nextW |-> nextW, vcl |-> vcl,
     nfree |-> nfree, log |-> log, crashed |-> crashed]

Init ==
    /\ heap = << >>
    /\ object_store = {}
    /\ nextW = 1
    /\ handles = << >>
    /\ vcl = [p \in Ptrs |-> "none"]
    /\ nfree = [p \in Ptrs |-> 0]
    /\ otype = [p \in Objs |-> "GIT_OBJ_COMMIT"]
    /\ log = << >>
    /\ crashed = FALSE
    /\ ret = [op |-> "init"]
    /\ signal = NoSignal
    /\ defuns = {}

(* ------------------------------------------------------------------ *)
(* The object store                                                   *)
(* ------------------------------------------------------------------ *)

\* HASH_FIND_PTR(object_store, &obj, wrapper): the wrapper keyed by p, or NULL.
HASH_FIND_PTR(m, p) ==
    LET found == {w \in m.store : m.heap[w].ptr = p}
    IN  IF found = {} THEN NULL ELSE CHOOSE w \in found : TRUE

\* Fault: the found branch also storing the type argument.
IncrefFound_Retype(m, w, type) ==
    [m EXCEPT !.heap[w].refcount = @ + 1,
              !.heap[w].type = type,
              !.log = Append(@, [ev |-> "incref", ptr |-> m.heap[w].ptr])]

\* egit_incref, the branch taken when the pointer is already stored.
IncrefFound(m, w, type) ==
    [m EXCEPT !.heap[w].refcount = @ + 1,
              !.log = Append(@, [ev |-> "incref", ptr |-> m.heap[w].ptr])]

\* egit_incref, the branch that mallocs a wrapper and adds it to the table.
IncrefNew(m, type, p) ==
    [m EXCEPT !.heap = @ @@ (m.nextW :> [type |-> type, ptr |-> p, refcount |-> 1]),
              !.store = @ \cup {m.nextW},
              !.nextW = @ + 1,
              !.log = Append(@, [ev |-> "add", ptr |-> p])]

\* Fault: egit_incref without the HASH_FIND_PTR lookup, adding a wrapper on
\* every call.
egit_incref_NoLookup(m, type, p) == IncrefNew(m, type, p)

\* static egit_object *egit_incref(egit_type type, void *obj)
\* The C return value is HASH_FIND_PTR of the resulting memory.
egit_incref(m, type, p) ==
    LET retval == HASH_FIND_PTR(m, p)
    IN  IF retval # NULL THEN IncrefFound(m, retval, type)
        ELSE IncrefNew(m, type, p)

\* git_object_free / git_reference_free / git_repository_free on p.
git_free(m, p) ==
    [m EXCEPT !.vcl[p] = "freed",
              !.nfree[p] = @ + 1,
              !.log = Append(@, [ev |-> "free", ptr |-> p])]

\* Fault: the early return written "refcount >= 0".
StillReferenced_NonNegative(refcount) == refcount >= 0

\* "if (obj->refcount != 0) return;" of egit_decref_wrapper.
StillReferenced(refcount) == refcount # 0

\* HASH_DEL(object_store, obj)
HASH_DEL(m, w) ==
    [m EXCEPT !.store = @ \ {w},
              !.log = Append(@, [ev |-> "del", ptr |-> m.heap[w].ptr])]

\* Fault: egit_decref_wrapper without its final free(obj).
FreeWrapper_Leak(m, w) == m

\* free(obj): the wrapper struct is returned to the allocator.
FreeWrapper(m, w) ==
    [m EXCEPT !.heap = [x \in (DOMAIN m.heap) \ {w} |-> m.heap[x]]]

\* Fault: the EGIT_REFERENCE case without its break, falling through to
\* git_repository_free(obj->ptr).
VclFree_Fallthrough(m, type, p) ==
    CASE type \in ObjectTypes       -> git_free(m, p)
      [] type = "EGIT_REFERENCE"    -> git_free(git_free(m, p), p)
      [] type = "EGIT_REPOSITORY"   -> git_free(m, p)
      [] OTHER -> m

\* Fault: EGIT_UNKNOWN handled by the EGIT_REPOSITORY case.
VclFree_UnknownFrees(m, type, p) == git_free(m, p)

\* The libgit2 free function each case of the switch of egit_decref_wrapper
\* calls on obj->ptr (none for EGIT_UNKNOWN).
VclFree(m, type, p) ==
    CASE type \in ObjectTypes       -> git_free(m, p)
      [] type = "EGIT_REFERENCE"    -> git_free(m, p)
      [] type = "EGIT_REPOSITORY"   -> git_free(m, p)
      [] OTHER -> m

\* Fault: EGIT_REPOSITORY listed with the git_object cases, so that a
\* repository cascades to git_object_owner of itself.
CascadeOwners_RepositoryToo(type, p) ==
    CASE type \in ObjectTypes \cup {"EGIT_REPOSITORY"} -> {git_object_owner(p)}
      [] type = "EGIT_REFERENCE" -> {git_reference_owner(p)}
      [] OTHER -> {}

\* The owner each case of the switch of egit_decref_wrapper captures before
\* the free and passes to egit_decref_wrapped after it, as a set (empty for
\* EGIT_REPOSITORY and EGIT_UNKNOWN).
CascadeOwners(type, p) ==
    CASE type \in ObjectTypes    -> {git_object_owner(p)}
      [] type = "EGIT_REFERENCE" -> {git_reference_owner(p)}
      [] OTHER -> {}

RECURSIVE egit_decref_wrapper(_, _)

\* void egit_decref_wrapped(void *obj)
egit_decref_wrapped(m, p) ==
    egit_decref_wrapper(m, HASH_FIND_PTR(m, p))

\* Fault: the owner released before the libgit2 free of the child, against
\* the note "this object must be freed before calling decref on others".
egit_decref_wrapper_CascadeFirst(m, w) ==
    IF m.crashed THEN m
    ELSE IF w \notin DOMAIN m.heap THEN [m EXCEPT !.crashed = TRUE]
    ELSE
      LET m1 == [m EXCEPT !.heap[w].refcount = @ - 1,
                          !.log = Append(@, [ev |-> "decref", ptr |-> m.heap[w].ptr])]
          obj == m1.heap[w]
      IN  IF StillReferenced(obj.refcount) THEN m1
          ELSE
            LET m2   == HASH_DEL(m1, w)
                repo == CascadeOwners(obj.type, obj.ptr)
                m3   == IF repo = {} THEN m2
                        ELSE egit_decref_wrapped(m2, CHOOSE o \in repo : TRUE)
                m4   == VclFree(m3, obj.type, obj.ptr)
            IN  IF m4.crashed THEN m4 ELSE FreeWrapper(m4, w)

\* void egit_decref_wrapper(void *_obj)
\* Dereferencing NULL (or a struct already given back to the allocator)
\* ends the process; nothing after it runs.
egit_decref_wrapper(m, w) ==
    IF m.crashed THEN m
    ELSE IF w \notin DOMAIN m.heap THEN [m EXCEPT !.crashed = TRUE]
    ELSE
      LET m1 == [m EXCEPT !.heap[w].refcount = @ - 1,
                          !.log = Append(@, [ev |-> "decref", ptr |-> m.heap[w].ptr])]
          obj == m1.heap[w]
      IN  IF StillReferenced(obj.refcount) THEN m1
          ELSE
            LET m2   == HASH_DEL(m1, w)
                repo == CascadeOwners(obj.type, obj.ptr)
                m3   == VclFree(m2, obj.type, obj.ptr)
                m4   == IF repo = {} THEN m3
                        ELSE egit_decref_wrapped(m3, CHOOSE o \in repo : TRUE)
            IN  IF m4.crashed THEN m4 ELSE FreeWrapper(m4, w)

\* Fault: the refinement switch without its GIT_OBJ_TAG case.
Refine_NoTag(type, gtype) ==
    IF type = "EGIT_OBJECT"
    THEN CASE gtype = "GIT_OBJ_COMMIT" -> "EGIT_COMMIT"
           [] gtype = "GIT_OBJ_TREE"   -> "EGIT_TREE"
           [] gtype = "GIT_OBJ_BLOB"   -> "EGIT_BLOB"
           [] OTHER -> type
    ELSE type

\* The first switch of egit_wrap: "If it's a git_object, try to be more specific".
Refine(type, gtype) ==
    IF type = "EGIT_OBJECT"
    THEN CASE gtype = "GIT_OBJ_COMMIT" -> "EGIT_COMMIT"
           [] gtype = "GIT_OBJ_TREE"   -> "EGIT_TREE"
           [] gtype = "GIT_OBJ_BLOB"   -> "EGIT_BLOB"
           [] gtype = "GIT_OBJ_TAG"    -> "EGIT_TAG"
           [] OTHER -> type
    ELSE type

\* Fault: the owner switch without its EGIT_REFERENCE case.
WrapOwners_NoReference(type, p) ==
    CASE type \in ObjectTypes -> {git_object_owner(p)}
      [] OTHER -> {}

\* The second switch of egit_wrap: the owner pointers whose refcount the
\* call increases, as a set (empty for the default case).
WrapOwners(type, p) ==
    CASE type \in ObjectTypes -> {git_object_owner(p)}
      [] type = "EGIT_REFERENCE" -> {git_reference_owner(p)}
      [] OTHER -> {}

\* egit_wrap up to make_user_ptr: the memory after both egit_incref calls
\* and the wrapper the user pointer will carry.
egit_wrap(m, hint, p, gtype) ==
    LET type == Refine(hint, gtype)
        m1   == egit_incref(m, type, p)
        obj  == HASH_FIND_PTR(m1, p)
        own  == WrapOwners(type, p)
        m2   == IF own = {} THEN m1
                ELSE egit_incref(m1, "EGIT_REPOSITORY", CHOOSE o \in own : TRUE)
    IN  [m |-> m2, obj |-> obj]

(* ------------------------------------------------------------------ *)
(* Operations                                                         *)
(* ------------------------------------------------------------------ *)

SetMem(m) ==
    /\ heap' = m.heap
    /\ object_store' = m.store
    /\ nextW' = m.nextW
    /\ vcl' = m.vcl
    /\ nfree' = m.nfree
    /\ log' = m.log
    /\ crashed' = m.crashed

\* The type a binding of this repository passes to egit_wrap for a pointer
\* of each sort.
BindingHint(p) ==
    IF p \in Repos THEN "EGIT_REPOSITORY"
    ELSE IF p \in Refs THEN "EGIT_REFERENCE"
    ELSE "EGIT_OBJECT"

\* The repository libgit2 records as the owner of a child pointer.
VclOwner(p) ==
    IF p \in Refs THEN git_reference_owner(p) ELSE git_object_owner(p)

\* libgit2 returns pointer p from a call. If p is not live this is a new
\* allocation; a child is allocated inside its repository, which libgit2
\* has open (it opens it if the bindings never saw it).
HandOut(m, p) ==
    IF m.vcl[p] = "live" THEN m
    ELSE LET fresh == IF p \in Repos \/ m.vcl[VclOwner(p)] = "live"
                      THEN {p} ELSE {p, VclOwner(p)}
         IN  [m EXCEPT !.vcl = [q \in Ptrs |-> IF q \in fresh THEN "live" ELSE @[q]],
                       !.nfree = [q \in Ptrs |-> IF q \in fresh THEN 0 ELSE @[q]]]

\* libgit2 hands out pointer p (an object with type gtype) and the caller
\* wraps it with type hint: egit_wrap, then make_user_ptr.
WrapCall(hint, p, gtype, max) ==
    /\ ~crashed
    /\ Len(handles) < max
    /\ (p \in Objs /\ vcl[p] = "live") => gtype = otype[p]
    /\ p \notin Objs => gtype = "GIT_OBJ_COMMIT"
    /\ LET r == egit_wrap(HandOut([Mem EXCEPT !.log = << >>], p), hint, p, gtype)
       IN  /\ SetMem(r.m)
           /\ handles' = Append(handles, [w |-> r.obj, ptr |-> p, live |-> TRUE,
                                         hint |-> hint])
           /\ ret' = [op |-> "wrap", handle |-> Len(handles) + 1, hint |-> hint,
                      ptr |-> p]
    /\ otype' = IF p \in Objs THEN [otype EXCEPT ![p] = gtype] ELSE otype
    /\ signal' = NoSignal
    /\ UNCHANGED defuns

Wrap ==
    \E p \in Ptrs, gtype \in GitOTypes :
        WrapCall(BindingHint(p), p, gtype, MaxWraps)

\* The host finalizes user pointer h: it calls egit_decref_wrapper on its payload.
Release ==
    \E h \in 1..Len(handles) :
        /\ ~crashed
        /\ handles[h].live
        /\ SetMem(egit_decref_wrapper([Mem EXCEPT !.log = << >>], handles[h].w))
        /\ handles' = [handles EXCEPT ![h].live = FALSE]
        /\ ret' = [op |-> "release", handle |-> h]
        /\ signal' = NoSignal
        /\ UNCHANGED <<otype, defuns>>

Next == Wrap \/ Release

Spec == Init /\ [][Next]_vars

\* egit_wrap is exported and takes any egit_type. With EGIT_UNKNOWN it makes
\* no libgit2 call on the pointer, so the call is defined for every pointer.
WrapUnknown ==
    \E p \in Ptrs, gtype \in GitOTypes :
        WrapCall("EGIT_UNKNOWN", p, gtype, MaxHintWraps)

WrapH ==
    \E p \in Ptrs, gtype \in GitOTypes :
        WrapCall(BindingHint(p), p, gtype, MaxHintWraps)

NextHint == WrapH \/ WrapUnknown \/ Release

SpecHint == Init /\ [][NextHint]_vars

(* ------------------------------------------------------------------ *)
(* Helpers the bindings call                                          *)
(* ------------------------------------------------------------------ *)

\* What the first word of a user pointer's payload can hold when the
\* payload is another module's struct: any egit_type value, or none of them.
ForeignWords == {"EGIT_REPOSITORY", "NOT_AN_EGIT_TYPE"}

\* Host values a binding can be given: the live user pointers egit_wrap made,
\* a value that is no user pointer, and user pointers of other modules.
HostValues ==
    {[tag |-> "handle", h |-> i, word |-> "-"] :
        i \in {j \in 1..Len(handles) : handles[j].live}}
      \cup {[tag |-> "nil", h |-> 0, word |-> "-"]}
      \cup {[tag |-> "foreign", h |-> 0, word |-> x] : x \in ForeignWords}

\* em_user_ptrp(env, v)
em_user_ptrp(v) == v.tag \in {"handle", "foreign"}

\* ((egit_object*) env->get_user_ptr(env, v))->type
PayloadType(v) ==
    IF v.tag = "handle" THEN heap[handles[v.h].w].type ELSE v.word

\* egit_type egit_get_type(emacs_env *env, emacs_value _obj)
egit_get_type(v) ==
    IF ~em_user_ptrp(v) THEN "EGIT_UNKNOWN" ELSE PayloadType(v)

\* Fault: the comparison accepting any git_object type where EGIT_OBJECT is
\* expected, as egit_assert_object does.
TypeMatches_AnyObject(type, v) ==
    \/ type = egit_get_type(v)
    \/ type = "EGIT_OBJECT" /\ egit_get_type(v) \in ObjectTypes

\* The comparison of egit_assert_type.
TypeMatches(type, v) == type = egit_get_type(v)

\* bool egit_assert_type(env, obj, type, predicate): [result, signal]
egit_assert_type(v, type, predicate) ==
    IF TypeMatches(type, v)
    THEN [result |-> TRUE, signal |-> NoSignal]
    ELSE [result |-> FALSE,
          signal |-> [kind |-> "wrong-type-argument", predicate |-> predicate,
                      value |-> v]]

\* Fault: the success test written "retval > 0".
NoFailure_Positive(retval) == retval > 0

\* "if (retval >= 0) return false;" of egit_dispatch_error.
NoFailure(retval) == retval >= 0

\* bool egit_dispatch_error(env, retval), err being what giterr_last() returns
egit_dispatch_error(retval, err) ==
    IF NoFailure(retval) THEN [result |-> FALSE, signal |-> NoSignal]
    ELSE IF err.null THEN [result |-> FALSE, signal |-> NoSignal]
    ELSE [result |-> TRUE,
          signal |-> [kind |-> "giterr", klass |-> err.klass,
                      message |-> err.message]]

Predicates == {"git-commit-p", "git-repository-p"}

\* The expected types the bindings are explored with.
ExpectedTypes ==
    {"EGIT_UNKNOWN", "EGIT_REPOSITORY", "EGIT_REFERENCE", "EGIT_COMMIT",
     "EGIT_OBJECT"}

RetVals == {-3, -1, 0, 1}

\* giterr_last(): NULL, or the thread's last error record.
LastErrors ==
    {[null |-> TRUE, klass |-> 0, message |-> ""],
     [null |-> FALSE, klass |-> 6, message |-> "repository not found"],
     [null |-> FALSE, klass |-> 4, message |-> "reference not found"]}

StoreUnchanged ==
    UNCHANGED <<heap, object_store, nextW, handles, vcl, nfree, otype, log, crashed,
                defuns>>

GetType ==
    \E v \in HostValues :
        /\ ~crashed
        /\ ret' = [op |-> "get_type", value |-> v, result |-> egit_get_type(v)]
        /\ signal' = NoSignal
        /\ StoreUnchanged

AssertType ==
    \E v \in HostValues, type \in ExpectedTypes, predicate \in Predicates :
        /\ ~crashed
        /\ LET r == egit_assert_type(v, type, predicate)
           IN  /\ ret' = [op |-> "assert_type", value |-> v, type |-> type,
                          predicate |-> predicate, result |-> r.result]
               /\ signal' = r.signal
        /\ StoreUnchanged

DispatchError ==
    \E retval \in RetVals, err \in LastErrors :
        /\ ~crashed
        /\ LET r == egit_dispatch_error(retval, err)
           IN  /\ ret' = [op |-> "dispatch_error", retval |-> retval, err |-> err,
                          result |-> r.result]
               /\ signal' = r.signal
        /\ StoreUnchanged

WrapQ ==
    \E p \in Ptrs, gtype \in GitOTypes :
        WrapCall(BindingHint(p), p, gtype, MaxQueryWraps)

NextQuery == WrapQ \/ Release \/ GetType \/ AssertType \/ DispatchError

SpecQuery == Init /\ [][NextQuery]_vars

(* ------------------------------------------------------------------ *)
(* egit_init: the functions the module defines in the host            *)
(* ------------------------------------------------------------------ *)

\* A Lisp name such as git-repository-empty-p and a C identifier such as
\* egit_repository_empty_p are written as their words: <<"git", "repository",
\* "empty", "p">> and <<"egit", "repository", "empty", "p">>; the "__doc"
\* suffix is the words "" and "doc".

\* The DEFUN(ename, cname, min_nargs, max_nargs) lines of egit_init, in order.
DefunCalls ==
    << [ename |-> <<"git", "clone">>, cname |-> <<"clone">>, min |-> 2, max |-> 2],
       [ename |-> <<"git", "object", "id">>, cname |-> <<"object", "id">>, min |-> 1, max |-> 1],
       [ename |-> <<"git", "object", "short", "id">>, cname |-> <<"object", "short", "id">>, min |-> 1, max |-> 1],
       [ename |-> <<"git", "object", "p">>, cname |-> <<"object", "p">>, min |-> 1, max |-> 1],
       [ename |-> <<"git", "reference", "name">>, cname |-> <<"reference", "name">>, min |-> 1, max |-> 1],
       [ename |-> <<"git", "reference", "owner">>, cname |-> <<"reference", "owner">>, min |-> 1, max |-> 1],
       [ename |-> <<"git", "reference", "resolve">>, cname |-> <<"reference", "resolve">>, min |-> 1, max |-> 1],
       [ename |-> <<"git", "reference", "target">>, cname |-> <<"reference", "target">>, min |-> 1, max |-> 1],
       [ename |-> <<"git", "reference", "p">>, cname |-> <<"reference", "p">>, min |-> 1, max |-> 1],
       [ename |-> <<"git", "repository", "init">>, cname |-> <<"repository", "init">>, min |-> 1, max |-> 2],
       [ename |-> <<"git", "repository", "open">>, cname |-> <<"repository", "open">>, min |-> 1, max |-> 1],
       [ename |-> <<"git", "repository", "open", "bare">>, cname |-> <<"repository", "open", "bare">>, min |-> 1, max |-> 1],
       [ename |-> <<"git", "repository", "commondir">>, cname |-> <<"repository", "commondir">>, min |-> 1, max |-> 1],
       [ename |-> <<"git", "repository", "get", "namespace">>, cname |-> <<"repository", "get", "namespace">>, min |-> 1, max |-> 1],
       [ename |-> <<"git", "repository", "head">>, cname |-> <<"repository", "head">>, min |-> 1, max |-> 1],
       [ename |-> <<"git", "repository", "head", "for", "worktree">>, cname |-> <<"repository", "head", "for", "worktree">>, min |-> 2, max |-> 2],
       [ename |-> <<"git", "repository", "ident">>, cname |-> <<"repository", "ident">>, min |-> 1, max |-> 1],
       [ename |-> <<"git", "repository", "message">>, cname |-> <<"repository", "message">>, min |-> 1, max |-> 1],
       [ename |-> <<"git", "repository", "path">>, cname |-> <<"repository", "path">>, min |-> 1, max |-> 1],
       [ename |-> <<"git", "repository", "state">>, cname |-> <<"repository", "state">>, min |-> 1, max |-> 1],
       [ename |-> <<"git", "repository", "workdir">>, cname |-> <<"repository", "workdir">>, min |-> 1, max |-> 1],
       [ename |-> <<"git", "repository", "detach", "head">>, cname |-> <<"repository", "detach", "head">>, min |-> 1, max |-> 1],
       [ename |-> <<"git", "repository", "message", "remove">>, cname |-> <<"repository", "message", "remove">>, min |-> 1, max |-> 1],
       [ename |-> <<"git", "repository", "p">>, cname |-> <<"repository", "p">>, min |-> 1, max |-> 1],
       [ename |-> <<"git", "repository", "bare", "p">>, cname |-> <<"repository", "bare", "p">>, min |-> 1, max |-> 1],
       [ename |-> <<"git", "repository", "empty", "p">>, cname |-> <<"repository", "empty", "p">>, min |-> 1, max |-> 1],
       [ename |-> <<"git", "repository", "head", "detached", "p">>, cname |-> <<"repository", "empty", "p">>, min |-> 1, max |-> 1],
       [ename |-> <<"git", "repository", "head", "unborn", "p">>, cname |-> <<"repository", "empty", "p">>, min |-> 1, max |-> 1],
       [ename |-> <<"git", "repository", "shallow", "p">>, cname |-> <<"repository", "shallow", "p">>, min |-> 1, max |-> 1],
       [ename |-> <<"git", "repository", "worktree", "p">>, cname |-> <<"repository", "worktree", "p">>, min |-> 1, max |-> 1],
       [ename |-> <<"git", "revparse", "single">>, cname |-> <<"revparse", "single">>, min |-> 2, max |-> 2] >>

\* The DEFUN macro: the function object make_function builds (arity, the
\* trampoline egit_dispatch_<max_nargs>, the docstring egit_<cname>__doc and,
\* as data, the implementation egit_<cname>) under the name em_defun gives it.
DEFUN(c) ==
    [name |-> c.ename,
     fn   |-> [min |-> c.min, max |-> c.max,
               dispatch |-> <<"egit", "dispatch", c.max>>,
               doc  |-> <<"egit">> \o c.cname \o <<"", "doc">>,
               data |-> <<"egit">> \o c.cname]]

\* em_defun(env, name, fn): the name's function cell is set, replacing any
\* earlier definition.
em_defun(cells, d) == {x \in cells : x.name # d.name} \cup {d}

RECURSIVE DefunsUpTo(_)

\* The function cells after the first n DEFUN lines of egit_init.
DefunsUpTo(n) ==
    IF n = 0 THEN {} ELSE em_defun(DefunsUpTo(n - 1), DEFUN(DefunCalls[n]))

\* void egit_init(emacs_env *env)
egit_init == DefunsUpTo(Len(DefunCalls))

\* The host loads the module: egit_init runs once, before any binding.
EgitInit ==
    /\ ~crashed
    /\ defuns = {}
    /\ defuns' = egit_init
    /\ ret' = [op |-> "init"]
    /\ signal' = NoSignal
    /\ UNCHANGED <<heap, object_store, nextW, handles, vcl, nfree, otype, log, crashed>>

\* The host calls a defined name: the trampoline egit_dispatch_1 or
\* egit_dispatch_2 casts data to a function and calls it. What the
\* implementations do lies outside this file; the call is recorded.
Funcall ==
    \E d \in defuns :
        /\ ~crashed
        /\ ret' = [op |-> "funcall", name |-> d.name, dispatch |-> d.fn.dispatch,
                   func |-> d.fn.data]
        /\ signal' = NoSignal
        /\ StoreUnchanged

\* A binding, reached through a defined name, wraps a pointer.
WrapI ==
    /\ defuns # {}
    /\ WrapQ

NextInit == EgitInit \/ Funcall \/ WrapI \/ Release

SpecInit == Init /\ [][NextInit]_vars

(* ------------------------------------------------------------------ *)
(* Properties                                                         *)
(* ------------------------------------------------------------------ *)

\* The types whose wrappers have an owner repository.
ChildTypes == ObjectTypes \cup {"EGIT_REFERENCE"}

\* The live user pointers whose payload is wrapper w.
LiveHandlesOf(w) == {h \in 1..Len(handles) : handles[h].live /\ handles[h].w = w}

\* The stored wrappers of a child type whose libgit2 owner is pointer p.
ChildWrappersOf(p) ==
    {c \in object_store : heap[c].type \in ChildTypes /\ VclOwner(heap[c].ptr) = p}

AllFinalized ==
    /\ Len(handles) > 0
    /\ \A h \in 1..Len(handles) : ~handles[h].live

\* Position of the first event [ev, ptr] in the log of the last operation, 0 if none.
LogPos(ev, p) ==
    LET at == {i \in 1..Len(log) : log[i] = [ev |-> ev, ptr |-> p]}
    IN  IF at = {} THEN 0 ELSE CHOOSE i \in at : \A j \in at : i <= j

\* C1 (conservation): once every handle egit_wrap returned has been given to
\* egit_decref_wrapper exactly once, the object store is empty.
C1_Conservation == AllFinalized => object_store = {}

\* C2 (refcount accuracy, I3): every stored wrapper's refcount is the number
\* of live handles on it plus the number of stored child wrappers it owns.
C2_RefcountAccuracy ==
    \A w \in object_store :
        heap[w].refcount =
            Cardinality(LiveHandlesOf(w)) + Cardinality(ChildWrappersOf(heap[w].ptr))

\* C3 (no premature free): a pointer libgit2 has been told to free has no
\* live handle, and a freed repository owns no stored child wrapper.
C3_NoPrematureFree ==
    \A p \in Ptrs :
        vcl[p] = "freed" =>
            /\ \A h \in 1..Len(handles) : handles[h].live => handles[h].ptr # p
            /\ ChildWrappersOf(p) = {}

\* C3 witness: the repository handle was finalized while a reference handle
\* is live; the repository is still stored and not freed.
C3_Witness ==
    /\ \E h \in 1..Len(handles) : handles[h].ptr = "R1" /\ ~handles[h].live
    /\ \E h \in 1..Len(handles) : handles[h].ptr = "F1" /\ handles[h].live
    /\ LiveHandlesOf(HASH_FIND_PTR(Mem, "R1")) = {}
    /\ HASH_FIND_PTR(Mem, "R1") # NULL
    /\ vcl["R1"] = "live"

\* C4 (no double free): libgit2's free is called at most once per pointer it
\* handed out, never while the pointer is stored, and exactly once by the
\* time a handed-out pointer has left the store.
C4_NoDoubleFree ==
    \A p \in Ptrs :
        /\ nfree[p] <= 1
        /\ HASH_FIND_PTR(Mem, p) # NULL => nfree[p] = 0
        /\ (vcl[p] # "none" /\ HASH_FIND_PTR(Mem, p) = NULL) => nfree[p] = 1

\* C4 witness: repository R2 was wrapped twice, both handles are finalized,
\* and git_repository_free ran once, in the second release.
C4_Witness ==
    /\ Cardinality({h \in 1..Len(handles) : handles[h].ptr = "R2"}) = 2
    /\ \A h \in 1..Len(handles) : handles[h].ptr = "R2" => ~handles[h].live
    /\ \A h, k \in 1..Len(handles) :
           (handles[h].ptr = "R2" /\ handles[k].ptr = "R2") => handles[h].w = handles[k].w
    /\ ret.op = "release"
    /\ LogPos("free", "R2") > 0
    /\ nfree["R2"] = 1

\* The handles on children of repository r that are still live.
LiveChildHandles(r) ==
    {h \in 1..Len(handles) :
        handles[h].live /\ handles[h].ptr \notin Repos /\ VclOwner(handles[h].ptr) = r}

\* C5 (owner pinning, P3): if no handle was ever made on repository r's
\* wrapper, the Release of the last live child handle of r frees the child,
\* then calls git_repository_free(r), and leaves r out of the store.
C5_OwnerPinning ==
    [][\A r \in Repos, h \in 1..Len(handles) :
          ( /\ HASH_FIND_PTR(Mem, r) # NULL
            /\ \A k \in 1..Len(handles) : handles[k].w # HASH_FIND_PTR(Mem, r)
            /\ LiveChildHandles(r) = {h}
            /\ handles' = [handles EXCEPT ![h].live = FALSE] )
          => ( /\ LogPos("free", handles[h].ptr)' > 0
               /\ LogPos("free", r)' > LogPos("free", handles[h].ptr)'
               /\ HASH_FIND_PTR(Mem, r)' = NULL )]_vars

\* C6 (identity, I1/P1): the store holds at most one wrapper per pointer, and
\* a handle made while an earlier handle's wrapper for the same pointer is
\* still stored carries that same wrapper.
C6_Identity ==
    /\ \A w1, w2 \in object_store : heap[w1].ptr = heap[w2].ptr => w1 = w2
    /\ \A i, j \in 1..Len(handles) :
           (i < j /\ handles[i].ptr = handles[j].ptr /\ handles[i].w \in object_store)
               => handles[j].w = handles[i].w

\* C6 witness: two live handles on one pointer share one stored wrapper.
C6_Witness ==
    \E i, j \in 1..Len(handles) :
        /\ i < j
        /\ handles[i].live /\ handles[j].live
        /\ handles[i].ptr = handles[j].ptr
        /\ handles[i].w = handles[j].w
        /\ handles[i].w \in object_store
        /\ heap[handles[i].w].refcount >= 2

\* libgit2's dynamic classification of an object, as an egit_type.
Classification(gtype) ==
    CASE gtype = "GIT_OBJ_COMMIT" -> "EGIT_COMMIT"
      [] gtype = "GIT_OBJ_TREE"   -> "EGIT_TREE"
      [] gtype = "GIT_OBJ_BLOB"   -> "EGIT_BLOB"
      [] gtype = "GIT_OBJ_TAG"    -> "EGIT_TAG"
      [] OTHER -> "EGIT_OBJECT"

\* The host value of the handle the last egit_wrap returned.
LastHandle == [tag |-> "handle", h |-> ret.handle, word |-> "-"]

\* C7 (kind refinement, P5), as claimed: whatever the store held before, the
\* handle egit_wrap(EGIT_OBJECT, p) returns has the type libgit2 classifies p as.
C7_KindRefinement ==
    (ret.op = "wrap" /\ ret.hint = "EGIT_OBJECT")
        => egit_get_type(LastHandle) = Classification(otype[ret.ptr])

\* C7 amended: the handle egit_wrap(EGIT_OBJECT, p) returns has libgit2's
\* classification of p when p had no store entry before the call, and the
\* type of that entry when it had one.
C7_KindRefinementFirstInsert ==
    [][(ret'.op = "wrap" /\ ret'.hint = "EGIT_OBJECT" /\ Len(handles') = Len(handles) + 1)
          => heap'[handles'[ret'.handle].w].type =
                 IF HASH_FIND_PTR(Mem, ret'.ptr) = NULL
                 THEN Classification(otype'[ret'.ptr])
                 ELSE heap[HASH_FIND_PTR(Mem, ret'.ptr)].type]_vars

\* C7 witness: egit_wrap(EGIT_OBJECT, p) has just returned a handle on a
\* wrapper that was already stored, as EGIT_UNKNOWN, for an object libgit2
\* classifies as a tree.
C7_Witness ==
    /\ ret.op = "wrap" /\ ret.hint = "EGIT_OBJECT"
    /\ otype[ret.ptr] = "GIT_OBJ_TREE"
    /\ heap[handles[ret.handle].w].refcount = 2
    /\ egit_get_type(LastHandle) = "EGIT_UNKNOWN"

\* C8: egit_assert_type returns true and signals nothing iff egit_get_type of
\* the value equals the expected type; otherwise it signals wrong-type-argument
\* naming the predicate it was given and returns false; the store is untouched.
C8_AssertType ==
    [][ret'.op = "assert_type" =>
          /\ ret'.result = (egit_get_type(ret'.value) = ret'.type)
          /\ ret'.result => signal' = NoSignal
          /\ ~ret'.result =>
                 signal' = [kind |-> "wrong-type-argument",
                            predicate |-> ret'.predicate, value |-> ret'.value]
          /\ UNCHANGED <<heap, object_store>>]_vars

\* C8 witness: assert_type(H(REPOSITORY), EGIT_COMMIT, git-commit-p) returned
\* false and signalled a wrong-type error naming git-commit-p.
C8_Witness ==
    /\ ret.op = "assert_type"
    /\ ret.value.tag = "handle"
    /\ egit_get_type(ret.value) = "EGIT_REPOSITORY"
    /\ ret.type = "EGIT_COMMIT"
    /\ ret.result = FALSE
    /\ signal.kind = "wrong-type-argument"
    /\ signal.predicate = "git-commit-p"

\* C9, as claimed: egit_dispatch_error signals for every retval < 0, signals
\* nothing for retval >= 0, and returns true iff it signalled.
C9_DispatchError ==
    ret.op = "dispatch_error" =>
        /\ ret.retval < 0 => signal.kind = "giterr"
        /\ ret.retval >= 0 => signal = NoSignal
        /\ ret.result = (signal # NoSignal)

\* C9 amended: egit_dispatch_error signals {klass, message} of the last-error
\* record for retval < 0 when giterr_last() returns a record; it signals
\* nothing when retval >= 0 or giterr_last() returns NULL; it returns true iff
\* it signalled.
C9_DispatchErrorWithRecord ==
    ret.op = "dispatch_error" =>
        /\ (ret.retval < 0 /\ ~ret.err.null) =>
               signal = [kind |-> "giterr", klass |-> ret.err.klass,
                         message |-> ret.err.message]
        /\ (ret.retval >= 0 \/ ret.err.null) => signal = NoSignal
        /\ ret.result = (signal # NoSignal)

\* C9 witness: a negative return code with no last-error record: nothing
\* signalled, false returned.
C9_Witness ==
    /\ ret.op = "dispatch_error"
    /\ ret.retval < 0
    /\ ret.err.null
    /\ ret.result = FALSE
    /\ signal = NoSignal

\* C10: egit_get_type returns the stored type for a handle egit_wrap made and
\* EGIT_UNKNOWN for every other host value, user pointers of other modules
\* included.
C10_GetType ==
    ret.op = "get_type" =>
        IF ret.value.tag = "handle"
        THEN ret.result = heap[handles[ret.value.h].w].type
        ELSE ret.result = "EGIT_UNKNOWN"

\* The log entry of event ev on pointer p.
Ev(ev, p) == [ev |-> ev, ptr |-> p]

\* C11 (free ordering, I4): a Release that brings a child wrapper to 0 runs,
\* in this order: remove it from the store, free the child in libgit2,
\* decrement the owner, and only then (if the owner reached 0) remove and
\* free the owner; every free of a pointer follows its removal from the store.
C11_FreeOrdering ==
    ret.op = "release" =>
        /\ \A i \in 1..Len(log) :
               log[i].ev = "free" =>
                   /\ \E j \in 1..(i - 1) : log[j] = Ev("del", log[i].ptr)
                   /\ HASH_FIND_PTR(Mem, log[i].ptr) = NULL
        /\ (Len(log) > 1 /\ handles[ret.handle].ptr \notin Repos) =>
               LET c == handles[ret.handle].ptr
                   r == VclOwner(c)
               IN  /\ Len(log) >= 4
                   /\ SubSeq(log, 1, 4) =
                          <<Ev("decref", c), Ev("del", c), Ev("free", c), Ev("decref", r)>>
                   /\ \/ Len(log) = 4
                      \/ /\ Len(log) = 6
                         /\ SubSeq(log, 5, 6) = <<Ev("del", r), Ev("free", r)>>
        /\ (Len(log) > 1 /\ handles[ret.handle].ptr \in Repos) =>
               LET r == handles[ret.handle].ptr
               IN  log = <<Ev("decref", r), Ev("del", r), Ev("free", r)>>

\* C11 witness: the Release of a reference handle freed the reference and
\* then, the owner having reached 0, the repository.
C11_Witness ==
    /\ ret.op = "release"
    /\ handles[ret.handle].ptr = "F1"
    /\ Len(log) = 6
    /\ LogPos("free", "F1") < LogPos("decref", "R1")
    /\ LogPos("decref", "R1") < LogPos("free", "R1")

\* C12 (owner liveness, I2): every stored wrapper of a child type has its
\* owner's wrapper stored with refcount >= 1, and no Release has looked up an
\* owner that was missing.
C12_OwnerLiveness ==
    /\ ~crashed
    /\ \A c \in object_store :
           heap[c].type \in ChildTypes =>
               /\ HASH_FIND_PTR(Mem, VclOwner(heap[c].ptr)) # NULL
               /\ heap[HASH_FIND_PTR(Mem, VclOwner(heap[c].ptr))].refcount >= 1

\* C12 witness: a Release cascaded to the owner and found its wrapper, which
\* stays stored, with no handle of its own, for another child wrapper.
C12_Witness ==
    /\ ret.op = "release"
    /\ handles[ret.handle].ptr = "F1"
    /\ LogPos("decref", "R1") > 0
    /\ HASH_FIND_PTR(Mem, "R1") # NULL
    /\ LiveHandlesOf(HASH_FIND_PTR(Mem, "R1")) = {}
    /\ HASH_FIND_PTR(Mem, "O1") # NULL
    /\ ~crashed

\* C13 (table membership, I5): between operations the allocated wrappers are
\* exactly the stored ones and each has refcount > 0; a wrapper whose refcount
\* a Release brought to 0 is out of the store and deallocated after it.
C13_TableMembership ==
    /\ DOMAIN heap = object_store
    /\ \A w \in DOMAIN heap : heap[w].refcount >= 0
    /\ \A w \in DOMAIN heap : w \in object_store <=> heap[w].refcount > 0
    /\ \A h \in 1..Len(handles) :
           (~handles[h].live /\ LiveHandlesOf(handles[h].w) = {}
               /\ handles[h].ptr \notin Repos)
               => handles[h].w \notin DOMAIN heap

\* C13 witness: a Release has just brought a wrapper to 0: it is neither
\* stored nor allocated any more.
C13_Witness ==
    /\ ret.op = "release"
    /\ LogPos("del", handles[ret.handle].ptr) > 0
    /\ handles[ret.handle].w \notin object_store
    /\ handles[ret.handle].w \notin DOMAIN heap
    /\ object_store # {}

\* The refcount stored for pointer p in memory m, 0 when p has no entry.
RefcountOf(m, p) ==
    IF HASH_FIND_PTR(m, p) = NULL THEN 0 ELSE m.heap[HASH_FIND_PTR(m, p)].refcount

\* The step is an egit_wrap call.
IsWrapStep == ret'.op = "wrap" /\ Len(handles') = Len(handles) + 1

\* The owner the ownership table gives pointer p wrapped as kind, if any.
OwnersFor(kind, p) ==
    IF kind \in ObjectTypes THEN {git_object_owner(p)}
    ELSE IF kind = "EGIT_REFERENCE" THEN {git_reference_owner(p)}
    ELSE {}

\* C14 (wrap effect and frame): egit_wrap(kind, p) raises p's refcount by 1
\* (from 0 when absent), raises the owner's refcount by 1 for a child kind,
\* leaves every other entry as it was, removes nothing and frees nothing.
C14_WrapEffect ==
    [][IsWrapStep =>
          LET p   == ret'.ptr
              own == OwnersFor(ret'.hint, p)
          IN  /\ RefcountOf(Mem', p) = RefcountOf(Mem, p) + 1
              /\ \A q \in Ptrs \ {p} :
                     RefcountOf(Mem', q) = RefcountOf(Mem, q) + (IF q \in own THEN 1 ELSE 0)
              /\ object_store \subseteq object_store'
              /\ \A w \in object_store :
                     /\ heap'[w].ptr = heap[w].ptr
                     /\ heap'[w].type = heap[w].type
              /\ \A w \in object_store' \ object_store : heap'[w].ptr \in {p} \cup own
              /\ \A i \in 1..Len(log') : log'[i].ev \in {"add", "incref"}
              /\ \A q \in Ptrs : vcl'[q] # "freed" \/ vcl[q] = "freed"]_vars

\* C14 witness: egit_wrap of a reference has just inserted both the
\* reference's wrapper and its owner's.
C14_Witness ==
    /\ ret.op = "wrap" /\ ret.hint = "EGIT_REFERENCE"
    /\ log = <<Ev("add", "F1"), Ev("add", "R1")>>
    /\ RefcountOf(Mem, "F1") = 1
    /\ RefcountOf(Mem, "R1") = 1

\* C15 (stored kind is authoritative): egit_wrap on a pointer that has an
\* entry returns that entry, with its kind unchanged and its refcount one
\* higher, whatever kind is passed; no stored wrapper ever changes kind.
C15_StoredKindAuthoritative ==
    [][/\ \A w \in object_store \cap object_store' :
              /\ heap'[w].type = heap[w].type
              /\ heap'[w].ptr = heap[w].ptr
       /\ (IsWrapStep /\ HASH_FIND_PTR(Mem, ret'.ptr) # NULL) =>
              LET w == HASH_FIND_PTR(Mem, ret'.ptr)
              IN  /\ handles'[ret'.handle].w = w
                  /\ w \in object_store'
                  /\ heap'[w].refcount = heap[w].refcount + 1]_vars

\* C15 witness: a reference stored as EGIT_REFERENCE was wrapped again as
\* EGIT_UNKNOWN: same wrapper, still EGIT_REFERENCE, refcount 2.
C15_Witness ==
    /\ ret.op = "wrap" /\ ret.hint = "EGIT_UNKNOWN" /\ ret.ptr = "F1"
    /\ heap[handles[ret.handle].w].type = "EGIT_REFERENCE"
    /\ heap[handles[ret.handle].w].refcount = 2
    /\ \E k \in 1..(ret.handle - 1) : handles[k].w = handles[ret.handle].w

\* The egit_wrap calls on wrapper w that increased an owner's refcount.
OwnerIncrements(w) ==
    {k \in 1..Len(handles) :
        handles[k].w = w /\ OwnersFor(handles[k].hint, handles[k].ptr) # {}}

\* C16 (wrap and release agree on the ownership edge): for every stored
\* wrapper, the owner increments made by the egit_wrap calls on it are as many
\* as the owner decrements its removal will make: one if its stored kind has
\* an owner, none otherwise.
C16_OwnershipEdgeBalanced ==
    \A w \in object_store :
        Cardinality(OwnerIncrements(w)) =
            (IF heap[w].type \in ChildTypes THEN 1 ELSE 0)

\* The step is the Release of live handle h.
IsReleaseOf(h) == handles[h].live /\ handles' = [handles EXCEPT ![h].live = FALSE]

Decrefs == {i \in 1..Len(log) : log[i].ev = "decref"}

\* C18 (bounded cascade): a Release returns after at most two nested
\* egit_decref_wrapper calls: its own and one on the owner repository of a
\* child, which is the last decrement of the call.
C18_BoundedCascade ==
    /\ ~crashed
    /\ ret.op = "release" =>
           /\ Cardinality(Decrefs) \in {1, 2}
           /\ Len(log) <= 6
           /\ log[1] = Ev("decref", handles[ret.handle].ptr)
           /\ Cardinality(Decrefs) = 2 =>
                  /\ log[1].ptr \notin Repos
                  /\ log[4] = Ev("decref", VclOwner(log[1].ptr))
                  /\ log[4].ptr \in Repos

\* C18 witness: a Release nested once, on the owner, which was removed too.
C18_Witness ==
    /\ ret.op = "release"
    /\ Cardinality(Decrefs) = 2
    /\ Len(log) = 6
    /\ handles[ret.handle].ptr = "O1"
    /\ object_store = {}

\* C19 (re-wrap after release): a wrapper once deallocated stays so, and
\* egit_wrap of a pointer whose earlier wrapper was removed inserts a wrapper
\* no handle has carried, with refcount 1, and increments the owner again.
C19_RewrapAfterRelease ==
    [][/\ \A k \in 1..Len(handles) :
              handles[k].w \notin DOMAIN heap => handles[k].w \notin DOMAIN heap'
       /\ ( /\ IsWrapStep
            /\ HASH_FIND_PTR(Mem, ret'.ptr) = NULL
            /\ \E k \in 1..Len(handles) : handles[k].ptr = ret'.ptr ) =>
              LET w == handles'[ret'.handle].w
              IN  /\ \A k \in 1..Len(handles) :
                         handles[k].ptr = ret'.ptr =>
                             /\ handles[k].w # w
                             /\ handles[k].w \notin DOMAIN heap'
                  /\ w \notin DOMAIN heap
                  /\ w \in object_store'
                  /\ heap'[w].refcount = 1
                  /\ heap'[w].ptr = ret'.ptr
                  /\ \A o \in OwnersFor(ret'.hint, ret'.ptr) :
                         RefcountOf(Mem', o) = RefcountOf(Mem, o) + 1]_vars

\* C19 witness: a reference wrapped, released and wrapped again: the second
\* handle carries another wrapper, with refcount 1, and the first is gone.
C19_Witness ==
    /\ ret.op = "wrap" /\ ret.ptr = "F1" /\ ret.handle = 2
    /\ handles[1].ptr = "F1" /\ ~handles[1].live
    /\ handles[1].w # handles[2].w
    /\ handles[1].w \notin DOMAIN heap
    /\ heap[handles[2].w].refcount = 1
    /\ RefcountOf(Mem, "R1") = 1

\* C20 (binding registration): after egit_init every defined name git-X is
\* bound to the implementation egit_X with the docstring egit_X__doc, so no
\* two names share an implementation.
C20_Bindings ==
    defuns # {} =>
        /\ \A d \in defuns :
               /\ d.fn.data = <<"egit">> \o Tail(d.name)
               /\ d.fn.doc = <<"egit">> \o Tail(d.name) \o <<"", "doc">>
        /\ \A d1, d2 \in defuns : d1.fn.data = d2.fn.data => d1.name = d2.name

====
